---- MODULE Spec2Model ----
(***************************************************************************)
(* Model of the server-side chart rendering service (the Express process   *)
(* of src/unnamed/part_002): GET /nodejs/query, GET /nodejs/healthz, the   *)
(* per-tile fetch+render tasks and the single shared headless-DOM          *)
(* document.                                                               *)
(*                                                                         *)
(* The JavaScript event loop is modelled explicitly: `running` names the   *)
(* continuation that currently occupies the single thread.  A new event    *)
(* (request arrival, promise settlement) is only handled when no           *)
(* continuation is on the stack; the synchronous statements of a running   *)
(* continuation are separate steps that only that continuation can take.   *)
(***************************************************************************)
EXTENDS Naturals, Integers, Sequences, FiniteSets, TLC

\* ------------------------------------------------------------------------
\* Bounds of the model
\* ------------------------------------------------------------------------
\* Number of /nodejs/query requests that arrive in one behaviour.
NumReq == 2
\* Number of /nodejs/healthz probes in one behaviour.
MaxHealth == 2

Req == 1..NumReq

\* No continuation is on the stack.
Idle == <<>>

\* ------------------------------------------------------------------------
\* Upstream response shapes (resp.data of POST /api/nl/data)
\* ------------------------------------------------------------------------
\* statVarKey: the tile has a statVarKey property.  units: for a ranking tile,
\* how many of showHighest and showLowest its rankingTileSpec sets.
Tile(type, statVarKey) == [type |-> type, statVarKey |-> statVarKey, units |-> 0]
RankingTile(units) == [type |-> "RANKING", statVarKey |-> TRUE, units |-> units]
Column(tiles) == [tiles |-> tiles]
Block(type, columns) == [type |-> type, columns |-> columns]
\* hasBlocks / hasCategories: the property is defined in the upstream JSON
Category(blocks) == [hasBlocks |-> TRUE, blocks |-> blocks]
CategoryNoBlocks == [hasBlocks |-> FALSE, blocks |-> <<>>]
Config(metadata, categories) ==
  [metadata |-> metadata, hasCategories |-> TRUE, categories |-> categories]
ConfigNoCategories == [metadata |-> FALSE, hasCategories |-> FALSE, categories |-> <<>>]

\* config without categories
CfgNoCategories == ConfigNoCategories
\* one category whose blocks property is missing
CfgCategoryNoBlocks == Config(FALSE, <<CategoryNoBlocks>>)
\* one block, one column, a line tile and a bar tile
CfgLineBar ==
  Config(FALSE, <<Category(<<Block("", <<Column(<<Tile("LINE", TRUE), Tile("BAR", TRUE)>>)>>)>>)>>)
\* a line tile, then in the next column an unsupported tile and a line tile
\* without statVarKey
CfgLineThenNoKey ==
  Config(FALSE,
    <<Category(<<Block("", <<Column(<<Tile("LINE", TRUE)>>),
                             Column(<<Tile("PLACE_OVERVIEW", FALSE), Tile("LINE", FALSE)>>)>>)>>)>>)
\* a DISASTER_EVENT block in a config without metadata
CfgDisasterNoMetadata ==
  Config(FALSE,
    <<Category(<<Block("DISASTER_EVENT", <<Column(<<Tile("DISASTER_EVENT_MAP", FALSE)>>)>>)>>)>>)
\* a DISASTER_EVENT block (a disaster map tile and a tile of another type),
\* then a block with a scatter tile
CfgDisasterScatter ==
  Config(TRUE,
    <<Category(<<Block("DISASTER_EVENT",
                       <<Column(<<Tile("DISASTER_EVENT_MAP", FALSE), Tile("LINE", TRUE)>>)>>),
                 Block("", <<Column(<<Tile("SCATTER", TRUE)>>)>>)>>)>>)
\* a ranking tile (showHighest and showLowest) in one category, an empty
\* category, a map tile in a third
CfgRankingMap ==
  Config(FALSE,
    <<Category(<<Block("", <<Column(<<RankingTile(2)>>)>>)>>),
      Category(<<>>),
      Category(<<Block("", <<Column(<<>>), Column(<<Tile("MAP", TRUE)>>)>>)>>)>>)
\* only tiles of unsupported type
CfgUnsupportedOnly ==
  Config(FALSE,
    <<Category(<<Block("", <<Column(<<Tile("HIGHLIGHT", TRUE), Tile("PLACE_OVERVIEW", FALSE)>>)>>)>>)>>)

ConfigShapes ==
  { CfgNoCategories, CfgCategoryNoBlocks, CfgLineBar, CfgLineThenNoKey,
    CfgDisasterNoMetadata, CfgDisasterScatter, CfgRankingMap, CfgUnsupportedOnly }

\* Outcomes of axios.post(`${CONFIG.apiRoot}/api/nl/data?q=${query}`): the
\* promise rejects (upstream unreachable, error status, undecodable body), or
\* resolves with a decoded object that has or lacks place.dcid.
NlRejected == [kind |-> "rejected", dcid |-> FALSE, config |-> CfgNoCategories]
NlData(dcid, config) == [kind |-> "data", dcid |-> dcid, config |-> config]

\* one line tile
CfgLine == Config(FALSE, <<Category(<<Block("", <<Column(<<Tile("LINE", TRUE)>>)>>)>>)>>)

HealthQueryInputs == {NlRejected, NlData(TRUE, CfgLine)}

\* a DISASTER_EVENT block with two disaster map tiles in two columns, then a
\* block with a scatter tile
CfgTwoDisasterMaps ==
  Config(TRUE,
    <<Category(<<Block("DISASTER_EVENT",
                       <<Column(<<Tile("DISASTER_EVENT_MAP", FALSE)>>),
                         Column(<<Tile("DISASTER_EVENT_MAP", FALSE)>>)>>),
                 Block("", <<Column(<<Tile("SCATTER", TRUE)>>)>>)>>)>>)

DisasterQueryInputs == {NlRejected, NlData(TRUE, CfgTwoDisasterMaps)}

QueryInputs ==
  {NlRejected}
    \cup {NlData(FALSE, c) : c \in {CfgNoCategories, CfgLineBar}}
    \cup {NlData(TRUE, c) : c \in ConfigShapes}

\* ------------------------------------------------------------------------
\* The synchronous walk of the config tree (lines 742-774)
\* ------------------------------------------------------------------------
SupportedTileTypes == {"LINE", "SCATTER", "BAR", "MAP", "RANKING"}
\* tile types whose container is appended to #dom-id
AttachedTileTypes == {"LINE", "BAR"}

\* The calls made to the upstream API for one request: the NL post, the event
\* data fetch of a DISASTER_EVENT block, the data fetch of a tile.
NlFetch == [kind |-> "nl", id |-> <<>>]
EventFetch(blockId) == [kind |-> "event", id |-> blockId]
TileFetch(tileId) == [kind |-> "tile", id |-> tileId]

\* A tile task that has been started: the call of an async get*TileResult,
\* which runs synchronously up to its first await.
newTask(id, tile, pc) ==
  [id |-> id, type |-> tile.type, units |-> tile.units, pc |-> pc, ret |-> "none",
   out |-> <<>>]

\* acc.started: the tile tasks started so far, in the order they were started;
\* acc.blocks: the blocks whose fetchDisasterEventData was started;
\* acc.fetches: the upstream calls started, in the order they were started;
\* acc.threw: a TypeError has propagated out of the walk.
emptyWalk == [started |-> <<>>, blocks |-> {}, fetches |-> <<>>, threw |-> FALSE]

\* Variant: the switch has no type filter; every tile that has a statVarKey
\* gets a task.
dispatchTileMutant(acc, tile, tileId) ==
  IF tile.statVarKey
    THEN [acc EXCEPT !.started = Append(@, newTask(tileId, tile, "fetching")),
                     !.fetches = Append(@, TileFetch(tileId))]
    ELSE acc
\* switch (tile.type) of getBlockTileResults: tile.statVarKey is dereferenced
\* for the five supported types, before the async function is called.
dispatchTile(acc, tile, tileId) ==
  IF tile.type \in SupportedTileTypes
    THEN IF tile.statVarKey
           THEN [acc EXCEPT !.started = Append(@, newTask(tileId, tile, "fetching")),
                            !.fetches = Append(@, TileFetch(tileId))]
           ELSE [acc EXCEPT !.threw = TRUE]
    ELSE acc

\* switch (tile.type) of getDisasterBlockTileResults
dispatchDisasterTile(acc, tile, tileId) ==
  IF tile.type = "DISASTER_EVENT_MAP"
    THEN [acc EXCEPT !.started = Append(@, newTask(tileId, tile, "awaitBlock"))]
    ELSE acc

RECURSIVE forEachTile(_, _, _, _, _, _)
forEachTile(acc, tiles, tileIdx, blockId, colIdx, disaster) ==
  IF acc.threw \/ tileIdx >= Len(tiles) THEN acc
  ELSE LET tile == tiles[tileIdx + 1]
           tileId == blockId \o <<colIdx, tileIdx>>
           next == IF disaster THEN dispatchDisasterTile(acc, tile, tileId)
                               ELSE dispatchTile(acc, tile, tileId)
       IN forEachTile(next, tiles, tileIdx + 1, blockId, colIdx, disaster)

RECURSIVE forEachColumn(_, _, _, _, _)
forEachColumn(acc, columns, colIdx, blockId, disaster) ==
  IF acc.threw \/ colIdx >= Len(columns) THEN acc
  ELSE forEachColumn(
         forEachTile(acc, columns[colIdx + 1].tiles, 0, blockId, colIdx, disaster),
         columns, colIdx + 1, blockId, disaster)

getBlockTileResults(acc, blockId, block) ==
  forEachColumn(acc, block.columns, 0, blockId, FALSE)

\* Variant: the event data is fetched once for the block and again for every
\* column of it.
fetchDisasterEventDataMutant(acc, blockId, block) ==
  [acc EXCEPT !.blocks = @ \cup {blockId},
              !.fetches = @ \o [k \in 1..(1 + Len(block.columns)) |-> EventFetch(blockId)]]
\* const disasterEventDataPromise = fetchDisasterEventData(blockProp), called
\* once, before the columns are walked
fetchDisasterEventData(acc, blockId, block) ==
  [acc EXCEPT !.blocks = @ \cup {blockId}, !.fetches = Append(@, EventFetch(blockId))]

getDisasterBlockTileResults(acc, blockId, block) ==
  forEachColumn(fetchDisasterEventData(acc, blockId, block), block.columns, 0, blockId, TRUE)

\* switch (block.type): the argument config["metadata"]["eventTypeSpec"] is
\* evaluated before getDisasterBlockTileResults is called.
dispatchBlock(acc, config, blockId, block) ==
  IF block.type = "DISASTER_EVENT"
    THEN IF config.metadata
           THEN getDisasterBlockTileResults(acc, blockId, block)
           ELSE [acc EXCEPT !.threw = TRUE]
    ELSE getBlockTileResults(acc, blockId, block)

RECURSIVE forEachBlock(_, _, _, _, _)
forEachBlock(acc, config, blocks, blkIdx, catIdx) ==
  IF acc.threw \/ blkIdx >= Len(blocks) THEN acc
  ELSE forEachBlock(
         dispatchBlock(acc, config, <<catIdx, blkIdx>>, blocks[blkIdx + 1]),
         config, blocks, blkIdx + 1, catIdx)

RECURSIVE forEachCategory(_, _, _, _)
forEachCategory(acc, config, categories, catIdx) ==
  IF acc.threw \/ catIdx >= Len(categories) THEN acc
  ELSE LET category == categories[catIdx + 1] IN
       forEachCategory(
         IF ~category.hasBlocks
           THEN [acc EXCEPT !.threw = TRUE]
           ELSE forEachBlock(acc, config, category.blocks, 0, catIdx),
         config, categories, catIdx + 1)

\* const categories = config["categories"] || []; categories.forEach(...)
walkConfig(config) ==
  forEachCategory(emptyWalk, config,
                  IF config.hasCategories THEN config.categories ELSE <<>>, 0)

\* ------------------------------------------------------------------------
\* State
\* ------------------------------------------------------------------------
VARIABLES
  \* pcR[r]: "idle" (not yet arrived), "nl" (axios.post pending), "gathering"
  \* (Promise.all pending), "done" (the handler's promise chain has ended)
  pcR,
  \* input[r]: what the upstream NL API answers to request r
  input,
  \* responses[r]: the responses sent on res, in order
  responses,
  \* tasks[r]: the tile tasks started for request r, in the order started
  tasks,
  \* blocksPending[r]: blocks whose fetchDisasterEventData promise is pending
  blocksPending,
  \* settleOrder[r]: indices of tasks[r] in the order their promises settled
  settleOrder,
  \* dom: the children of <div id="dom-id"> of the shared JSDOM document
  dom,
  \* running: the tile task whose continuation is on the stack, or Idle
  running,
  \* health: the responses sent by GET /nodejs/healthz, in order
  health,
  \* fetches[r]: the calls to the upstream API started for request r, in order
  fetches

serverVars ==
  <<pcR, input, responses, tasks, blocksPending, settleOrder, dom, running, health, fetches>>

\* State of the other programs of the repository.  Each is a process of its
\* own (a browser page, or a function called on its own input) and shares no
\* state with the server; in the server's specifications it stays as it is.
VARIABLES
  \* text: the argument of getTextLength
  text,
  \* calls: the calls of getTextLength made so far, each with its result
  calls

textVars == <<text, calls>>

\* The CallFeedback component (src/static/js/apps/eval_rig/call_feedback.tsx)
VARIABLES
  \* status, response, applyToNext: the component's state (useState)
  status,
  response,
  applyToNext,
  \* session: the (sessionQueryId, sessionCallId) of SessionContext
  session,
  \* loads: the pending getCallData promises, each with the call it reads and
  \* the applyToNext its callback has captured
  loads,
  \* store, sheet: what saveToStore and saveToSheet have saved, per call
  store,
  sheet,
  \* submit: the current or the last call of checkAndSubmit
  submit,
  \* userActions: the number of things the user has done on the page
  userActions

feedbackVars ==
  <<status, response, applyToNext, session, loads, store, sheet, submit, userActions>>

\* The QueryResult component (src/static/js/apps/nl_interface/query_result.tsx)
VARIABLES
  \* chartsData, isLoading, errorMsg, hideCharts, debugData: the component's
  \* state (useState); debugData: whether it is defined
  chartsData,
  isLoading,
  errorMsg,
  hideCharts,
  debugData,
  \* contextCalls: the arguments of the calls of props.addContextCallback
  contextCalls,
  \* queryPosts: the number of pending axios posts of fetchData
  queryPosts,
  \* queryLog: for every fetch that has settled, the response and what the
  \* fetch did
  queryLog

resultVars ==
  <<chartsData, isLoading, errorMsg, hideCharts, debugData, contextCalls, queryPosts, queryLog>>

\* The HighlightTile component (src/static/js/components/tiles/highlight_tile.tsx)
VARIABLES
  \* tileProps: props.statVarSpec (denom given or not, scaling)
  tileProps,
  \* getPointPending: the promise of fetchData has not settled
  getPointPending,
  \* pointResp: what getPoint settled with
  pointResp,
  \* highlightData: the component's state
  highlightData

highlightVars == <<tileProps, getPointPending, pointResp, highlightData>>

\* The insights App (src/unnamed/part_003)
VARIABLES
  \* detected: whether the hash parameter was written from a detect response,
  \* and the list of detectResp (entities, comparisonEntities, variables or
  \* comparisonVariables) it was written from
  detected,
  \* hashPlace: a hash parameter holding a list (p, pcmp, t or tcmp), a string
  hashPlace,
  \* places: toApiList of the hash parameter
  places,
  \* insightPc: "detected" (before updateHash), "hashed" (the hash parameter
  \* is set), "listed" (toApiList has run)
  insightPc

insightVars == <<detected, hashPlace, places, insightPc>>

\* The insights App's loading (src/unnamed/part_003)
VARIABLES
  \* loadingStatus, hashParams, pageChartData: the App's state loadingStatus,
  \* hashParams (whether q and p are non-empty) and whether chartData is set
  loadingStatus,
  hashParams,
  pageChartData,
  \* posts: the numbers of pending posts to /api/insights/detect and
  \* /api/insights/fulfill, each awaited by one run of the effect
  posts,
  \* hashChanges: the number of times the user has changed the hash
  hashChanges

loadingVars == <<loadingStatus, hashParams, pageChartData, posts, hashChanges>>

clientVars == <<textVars, feedbackVars, resultVars, highlightVars, insightVars, loadingVars>>

vars == <<serverVars, fetches, clientVars>>

\* a string argument, as the sequence of its code points
StringText(chars) == [kind |-> "string", chars |-> chars]

\* getTextLength has not been called
TextIdle == text = StringText(<<>>) /\ calls = <<>>

\* the calls of the evaluation session
SessionCalls == {"call1", "call2"}

EMPTY_RESPONSE == [dcResponse |-> "", llmStat |-> "", question |-> ""]

\* what getCallData finds for a call: nothing (null), or the saved response
NoCallData == [saved |-> FALSE, response |-> EMPTY_RESPONSE]
CallData(resp) == [saved |-> TRUE, response |-> resp]

\* checkAndSubmit has not been called
NoSubmit ==
  [pc |-> "none", status |-> "null", call |-> "call1", response |-> EMPTY_RESPONSE,
   toStore |-> "none", toSheet |-> "none", returned |-> "none", spinner |-> FALSE]

\* The component has mounted on the first call: the first effect has called
\* getCallData.  stored: what the store holds.
FeedbackMounted(stored) ==
  /\ status = "null"
  /\ response = EMPTY_RESPONSE
  /\ applyToNext = FALSE
  /\ session = "call1"
  /\ loads = {[call |-> "call1", applyToNext |-> FALSE]}
  /\ store = stored
  /\ sheet = stored
  /\ submit = NoSubmit
  /\ userActions = 0

FeedbackIdle == FeedbackMounted([c \in SessionCalls |-> NoCallData])

\* useState<SearchResult | undefined>(): no charts data
NoChartsData == [defined |-> FALSE, categories |-> <<>>, fallback |-> FALSE]

\* The component has rendered for the first time: the effect has called
\* fetchData(props.query), which has set isLoading and issued the post.
ResultMounted ==
  /\ chartsData = NoChartsData
  /\ isLoading = TRUE
  /\ errorMsg = "undefined"
  /\ hideCharts = FALSE
  /\ debugData = FALSE
  /\ contextCalls = <<>>
  /\ queryPosts = 1
  /\ queryLog = <<>>

\* A decimal number mantissa * 10^exponent
Dec(m, e) == [m |-> m, e |-> e]

\* useState<HighlightData | undefined>(null)
NullHighlight ==
  [isNull |-> TRUE, value |-> Dec(0, 0), numFractionDigits |-> [finite |-> TRUE, n |-> 0],
   unitDisplayName |-> "undefined", sources |-> FALSE]

NoPointResp ==
  [kind |-> "none", hasMain |-> FALSE, value |-> Dec(0, 0),
   denom |-> [defined |-> FALSE, value |-> Dec(1, 0)],
   facet |-> [defined |-> FALSE, unit |-> "", unitDisplayName |-> "", provenanceUrl |-> FALSE]]

\* The tile has rendered for the first time with statVarSpec: the effect has
\* called fetchData(props).
HighlightMounted(statVarSpec) ==
  /\ tileProps = statVarSpec
  /\ getPointPending = TRUE
  /\ pointResp = NoPointResp
  /\ highlightData = NullHighlight

HighlightIdle == HighlightMounted([denom |-> FALSE, scaling |-> 0])

\* The page is opened with the hash parameter p = hash.
InsightOpened(hash) ==
  /\ detected = [from |-> FALSE, entities |-> <<>>]
  /\ hashPlace = hash
  /\ places = <<>>
  /\ insightPc = "hashed"

InsightIdle == InsightOpened(<<>>)

\* queryString.parse(hash): whether the parameters q and p are non-empty
HashParams(q, p) == [q |-> q, p |-> p]

NoPosts == [detect |-> 0, fulfill |-> 0]

\* The second effect of the App for the hash parameters params (lines
\* 187-197, 221-223): it sets the loading status and posts to detect when q
\* is given, else to fulfill when a place is given, else returns.
runEffect(params, pending) ==
  [loadingStatus |-> "loading",
   posts |-> IF params.q THEN [pending EXCEPT !.detect = @ + 1]
             ELSE IF params.p THEN [pending EXCEPT !.fulfill = @ + 1]
             ELSE pending]

\* The App has mounted on a page whose hash has the parameters params: the
\* first effect has parsed the hash and the second effect has run for it.
AppMounted(params) ==
  /\ hashParams = params
  /\ loadingStatus = runEffect(params, NoPosts).loadingStatus
  /\ posts = runEffect(params, NoPosts).posts
  /\ pageChartData = FALSE
  /\ hashChanges = 0

LoadingIdle == AppMounted(HashParams(FALSE, FALSE))

ClientsIdle ==
  TextIdle /\ FeedbackIdle /\ ResultMounted /\ HighlightIdle /\ InsightIdle /\ LoadingIdle

NoInput == [kind |-> "none", dcid |-> FALSE, config |-> CfgNoCategories]

OkResponse(charts) == [status |-> 200, body |-> [charts |-> charts]]
ErrResponse == [status |-> 500, body |-> [err |-> "Error fetching data."]]

\* One element of a TileResult[]: the id and req fields are not part of the
\* object the code builds; they record which tile task built it.
TileResult(r, task) == [type |-> task.type, id |-> task.id, req |-> r]

ServerInit ==
  /\ pcR = [r \in Req |-> "idle"]
  /\ input = [r \in Req |-> NoInput]
  /\ responses = [r \in Req |-> <<>>]
  /\ tasks = [r \in Req |-> <<>>]
  /\ blocksPending = [r \in Req |-> {}]
  /\ settleOrder = [r \in Req |-> <<>>]
  /\ dom = <<>>
  /\ running = Idle
  /\ health = <<>>
  /\ fetches = [r \in Req |-> <<>>]

Init == ServerInit /\ ClientsIdle

\* ------------------------------------------------------------------------
\* GET /nodejs/query (lines 712-797)
\* ------------------------------------------------------------------------
\* The handler runs: axios.post is issued.
Arrive(r, in) ==
  /\ running = Idle
  /\ pcR[r] = "idle"
  /\ pcR' = [pcR EXCEPT ![r] = "nl"]
  /\ input' = [input EXCEPT ![r] = in]
  /\ fetches' = [fetches EXCEPT ![r] = Append(@, NlFetch)]
  /\ UNCHANGED <<responses, tasks, blocksPending, settleOrder, dom, running, health, clientVars>>

\* Variant: the post is issued once more after it was rejected.
nlCatchMutant(posted) ==
  IF Len(posted) < 2
    THEN [sent |-> <<>>, fetches |-> <<NlFetch>>, pc |-> "nl"]
    ELSE [sent |-> <<ErrResponse>>, fetches |-> <<>>, pc |-> "done"]
\* the outer .catch (lines 793-796): console.error and res.status(500).send;
\* posted: the upstream calls of the request so far
nlCatch(posted) == [sent |-> <<ErrResponse>>, fetches |-> <<>>, pc |-> "done"]

\* The post rejects: the outer .catch sends 500.
NlReject(r) ==
  /\ running = Idle
  /\ pcR[r] = "nl"
  /\ input[r].kind = "rejected"
  /\ LET c == nlCatch(fetches[r]) IN
       /\ pcR' = [pcR EXCEPT ![r] = c.pc]
       /\ responses' = [responses EXCEPT ![r] = @ \o c.sent]
       /\ fetches' = [fetches EXCEPT ![r] = @ \o c.fetches]
  /\ UNCHANGED <<input, tasks, blocksPending, settleOrder, dom, running, health, clientVars>>

\* Variant: the test reads `!place`, and place is always an object.
noPlaceMutant(data) == FALSE
\* if (!place.dcid)
noPlace(data) == ~data.dcid

\* Variant: the "no tiles" branch falls through to Promise.all.
returnsAfterNoTilesMutant == FALSE
\* the return statement that follows res.status(200).send({ charts: [] }) in
\* the "no tiles" branch
returnsAfterNoTiles == TRUE

\* The .then callback of the post (lines 717-792), followed by the outer
\* .catch when the callback threw.  sent: the responses it sends; gather:
\* Promise.all(tilePromises) was called and is pending.  Promise.all of an
\* empty array resolves at once, and its .then sends { charts: [] }.
queryThen(data) ==
  LET w == walkConfig(data.config) IN
  IF noPlace(data)
    THEN [sent |-> <<OkResponse(<<>>)>>, started |-> <<>>, blocks |-> {}, fetches |-> <<>>,
          gather |-> FALSE]
  ELSE IF w.threw
    THEN [sent |-> <<ErrResponse>>, started |-> w.started, blocks |-> w.blocks,
          fetches |-> w.fetches, gather |-> FALSE]
  ELSE IF Len(w.started) < 1
    THEN [sent |-> IF returnsAfterNoTiles THEN <<OkResponse(<<>>)>>
                   ELSE <<OkResponse(<<>>), OkResponse(<<>>)>>,
          started |-> w.started, blocks |-> w.blocks, fetches |-> w.fetches,
          gather |-> FALSE]
  ELSE [sent |-> <<>>, started |-> w.started, blocks |-> w.blocks, fetches |-> w.fetches,
        gather |-> TRUE]

NlResolve(r) ==
  /\ running = Idle
  /\ pcR[r] = "nl"
  /\ input[r].kind = "data"
  /\ LET t == queryThen(input[r]) IN
       /\ responses' = [responses EXCEPT ![r] = @ \o t.sent]
       /\ tasks' = [tasks EXCEPT ![r] = t.started]
       /\ blocksPending' = [blocksPending EXCEPT ![r] = t.blocks]
       /\ pcR' = [pcR EXCEPT ![r] = IF t.gather THEN "gathering" ELSE "done"]
       /\ fetches' = [fetches EXCEPT ![r] = @ \o t.fetches]
  /\ UNCHANGED <<input, settleOrder, dom, running, health, clientVars>>

\* ------------------------------------------------------------------------
\* Promise.all(tilePromises).then(...).catch(...) (lines 782-791)
\* ------------------------------------------------------------------------
RECURSIVE flatResults(_, _)
\* tileResults.flat(1).filter((result) => result !== null), taking the tasks
\* ts in the order idxs
flatResults(ts, idxs) ==
  IF idxs = <<>> THEN <<>>
  ELSE (IF ts[Head(idxs)].ret = "results" THEN ts[Head(idxs)].out ELSE <<>>)
         \o flatResults(ts, Tail(idxs))

\* Variant: the results are collected as the tile promises settle.
gatherChartsMutant(ts, order) == flatResults(ts, order)
\* Promise.all resolves with the results in the order of tilePromises, whatever
\* the order in which they settled.
gatherCharts(ts, order) == flatResults(ts, [i \in DOMAIN ts |-> i])

allSettled(ts) == \A i \in DOMAIN ts : ts[i].pc = "done"
someRejected(ts) == \E i \in DOMAIN ts : ts[i].ret = "rejected"

\* The reaction of the pending Promise.all of request r to its tile promises
\* having become ts, settled in the order `order`.  It runs in the microtasks
\* that follow the settlement, before any other event is handled: .then sends
\* the charts once all have resolved, .catch sends 500 once one has rejected.
gather(r, ts, order) ==
  IF pcR[r] = "gathering" /\ (someRejected(ts) \/ allSettled(ts))
    THEN /\ responses' = [responses EXCEPT ![r] =
              Append(@, IF someRejected(ts) THEN ErrResponse
                        ELSE OkResponse(gatherCharts(ts, order)))]
         /\ pcR' = [pcR EXCEPT ![r] = "done"]
    ELSE UNCHANGED <<pcR, responses>>

\* ------------------------------------------------------------------------
\* Tile tasks (lines 252-599)
\* ------------------------------------------------------------------------
\* Variant: the error is not caught and the tile's promise rejects.
tileCatchMutant == "rejected"
\* What the catch block of a get*TileResult function makes of an error:
\* console.log and return null.
tileCatch == "null"

\* The promise of task i of request r settles.
settle(r, i, ret, out) ==
  LET ts == [tasks[r] EXCEPT ![i].pc = "done", ![i].ret = ret, ![i].out = out]
      order == Append(settleOrder[r], i)
  IN /\ tasks' = [tasks EXCEPT ![r] = ts]
     /\ settleOrder' = [settleOrder EXCEPT ![r] = order]
     /\ gather(r, ts, order)

TaskIdx(r) == DOMAIN tasks[r]
blockOf(task) == SubSeq(task.id, 1, 2)

\* awaiting tasks of block b, in the order they started to wait
RECURSIVE awaiting(_, _, _)
awaiting(ts, b, i) ==
  IF i > Len(ts) THEN <<>>
  ELSE (IF ts[i].pc = "awaitBlock" /\ blockOf(ts[i]) = b THEN <<i>> ELSE <<>>)
         \o awaiting(ts, b, i + 1)

\* fetchDisasterEventData of block b resolves: every disaster map tile of the
\* block resumes after `await disasterEventDataPromise` and runs up to
\* `await fetchDisasterMapData(tileProp)`.
DisasterEventDataOk(r, b) ==
  /\ running = Idle
  /\ b \in blocksPending[r]
  /\ blocksPending' = [blocksPending EXCEPT ![r] = @ \ {b}]
  /\ tasks' = [tasks EXCEPT ![r] =
       [i \in DOMAIN @ |->
          IF @[i].pc = "awaitBlock" /\ blockOf(@[i]) = b
            THEN [@[i] EXCEPT !.pc = "fetching"] ELSE @[i]]]
  /\ fetches' = [fetches EXCEPT ![r] =
       @ \o [k \in DOMAIN awaiting(tasks[r], b, 1) |->
               TileFetch(tasks[r][awaiting(tasks[r], b, 1)[k]].id)]]
  /\ UNCHANGED <<pcR, input, responses, settleOrder, dom, running, health, clientVars>>

\* fetchDisasterEventData of block b rejects: every disaster map tile of the
\* block catches the rejection.
DisasterEventDataFail(r, b) ==
  /\ running = Idle
  /\ b \in blocksPending[r]
  /\ blocksPending' = [blocksPending EXCEPT ![r] = @ \ {b}]
  /\ LET ts == [i \in DOMAIN tasks[r] |->
                  IF tasks[r][i].pc = "awaitBlock" /\ blockOf(tasks[r][i]) = b
                    THEN [tasks[r][i] EXCEPT !.pc = "done", !.ret = tileCatch]
                    ELSE tasks[r][i]]
         order == settleOrder[r] \o awaiting(tasks[r], b, 1)
     IN /\ tasks' = [tasks EXCEPT ![r] = ts]
        /\ settleOrder' = [settleOrder EXCEPT ![r] = order]
        /\ gather(r, ts, order)
  /\ UNCHANGED <<input, dom, running, health, fetches, clientVars>>

\* The tile's data fetch rejects: the catch block runs.
TileFetchFail(r, i) ==
  /\ running = Idle
  /\ i \in TaskIdx(r)
  /\ tasks[r][i].pc = "fetching"
  /\ settle(r, i, tileCatch, <<>>)
  /\ UNCHANGED <<input, blocksPending, dom, running, health, fetches, clientVars>>

\* Variant: an await stands between appendChild and the draw call.
yieldsAfterAppendMutant == TRUE
\* whether the continuation of a line or bar tile gives up the thread between
\* appendChild and the draw call (it does not: there is no await between them)
yieldsAfterAppend == FALSE

\* Line and bar tiles: the fetch resolves; createElement("div"),
\* setAttribute("id", id), getElementById(DOM_ID).appendChild(tileContainer).
AttachedAppend(r, i) ==
  /\ running = Idle
  /\ i \in TaskIdx(r)
  /\ tasks[r][i].pc = "fetching"
  /\ tasks[r][i].type \in AttachedTileTypes
  /\ dom' = Append(dom, [id |-> tasks[r][i].id, owner |-> <<r, i>>])
  /\ tasks' = [tasks EXCEPT ![r][i].pc = "appended"]
  /\ running' = IF yieldsAfterAppend THEN Idle ELSE <<r, i>>
  /\ UNCHANGED <<pcR, input, responses, blocksPending, settleOrder, health, fetches, clientVars>>

\* the continuation of task <<r, i>> may take its next synchronous step
mayStep(r, i) == IF yieldsAfterAppend THEN running = Idle ELSE running = <<r, i>>

\* drawLine / drawBar returns.
AttachedDraw(r, i) ==
  /\ i \in TaskIdx(r)
  /\ mayStep(r, i)
  /\ tasks[r][i].pc = "appended"
  /\ tasks' = [tasks EXCEPT ![r][i].pc = "drawn"]
  /\ running' = <<r, i>>
  /\ UNCHANGED <<pcR, input, responses, blocksPending, settleOrder, dom, health, fetches, clientVars>>

\* drawLine / drawBar throws: the catch block returns null; the container
\* stays in the document.
AttachedDrawThrows(r, i) ==
  /\ i \in TaskIdx(r)
  /\ mayStep(r, i)
  /\ tasks[r][i].pc = "appended"
  /\ settle(r, i, tileCatch, <<>>)
  /\ running' = Idle
  /\ UNCHANGED <<input, blocksPending, dom, health, fetches, clientVars>>

\* const svg = getProcessedSvg(tileContainer.querySelector("svg"))
AttachedSerialize(r, i) ==
  /\ i \in TaskIdx(r)
  /\ running = <<r, i>>
  /\ tasks[r][i].pc = "drawn"
  /\ tasks' = [tasks EXCEPT ![r][i].pc = "serialized"]
  /\ UNCHANGED <<pcR, input, responses, blocksPending, settleOrder, dom, running, health, fetches, clientVars>>

removeContainer(d, owner) == SelectSeq(d, LAMBDA c : c.owner # owner)

\* tileContainer.remove(); return [{...}]
AttachedRemove(r, i) ==
  /\ i \in TaskIdx(r)
  /\ running = <<r, i>>
  /\ tasks[r][i].pc = "serialized"
  /\ dom' = removeContainer(dom, <<r, i>>)
  /\ settle(r, i, "results", <<TileResult(r, tasks[r][i])>>)
  /\ running' = Idle
  /\ UNCHANGED <<input, blocksPending, health, fetches, clientVars>>

DetachedTileTypes == {"SCATTER", "MAP", "DISASTER_EVENT_MAP"}

\* Scatter, map and disaster map tiles: the fetch resolves; the chart is drawn
\* into containers that are never attached to the document, and serialized.
DetachedRender(r, i) ==
  /\ running = Idle
  /\ i \in TaskIdx(r)
  /\ tasks[r][i].pc = "fetching"
  /\ tasks[r][i].type \in DetachedTileTypes
  /\ settle(r, i, "results", <<TileResult(r, tasks[r][i])>>)
  /\ UNCHANGED <<input, blocksPending, dom, running, health, fetches, clientVars>>

\* The fetch resolves and the draw (or the rendering of a ranking unit)
\* throws: the catch block runs.
DetachedRenderThrows(r, i) ==
  /\ running = Idle
  /\ i \in TaskIdx(r)
  /\ tasks[r][i].pc = "fetching"
  /\ tasks[r][i].type \in DetachedTileTypes \cup {"RANKING"}
  /\ settle(r, i, tileCatch, <<>>)
  /\ UNCHANGED <<input, blocksPending, dom, running, health, fetches, clientVars>>

\* Ranking tiles: the fetch resolves with data for the tile's stat var; one
\* ranking unit is rendered for each of showHighest and showLowest.
RankingRender(r, i) ==
  /\ running = Idle
  /\ i \in TaskIdx(r)
  /\ tasks[r][i].pc = "fetching"
  /\ tasks[r][i].type = "RANKING"
  /\ settle(r, i, "results", [k \in 1..tasks[r][i].units |-> TileResult(r, tasks[r][i])])
  /\ UNCHANGED <<input, blocksPending, dom, running, health, fetches, clientVars>>

\* ------------------------------------------------------------------------
\* GET /nodejs/healthz (lines 708-710, 799-801)
\* ------------------------------------------------------------------------
\* Variant: etag generation is left at Express's default.
etagEnabledMutant == TRUE
\* app.disable("etag")
etagEnabled == FALSE

\* Express answers a conditional GET whose validator matches the ETag of the
\* body with 304 when etag generation is enabled.
healthzStatus(conditional) == IF etagEnabled /\ conditional THEN 304 ELSE 200

\* conditional: the probe repeats an earlier one and carries its validators
\* (recorded with the response)
Healthz(conditional) ==
  /\ running = Idle
  /\ Len(health) < MaxHealth
  /\ conditional => health # <<>>
  /\ health' = Append(health, [status |-> healthzStatus(conditional),
                               body |-> "Node Server Ready",
                               conditional |-> conditional])
  /\ UNCHANGED <<pcR, input, responses, tasks, blocksPending, settleOrder, dom, running,
               fetches, clientVars>>

\* ------------------------------------------------------------------------
\* Specification
\* ------------------------------------------------------------------------
Next ==
  \/ \E r \in Req, in \in QueryInputs : Arrive(r, in)
  \/ \E r \in Req : NlReject(r)
  \/ \E r \in Req : NlResolve(r)
  \/ \E r \in Req : \E b \in blocksPending[r] : DisasterEventDataOk(r, b)
  \/ \E r \in Req : \E b \in blocksPending[r] : DisasterEventDataFail(r, b)
  \/ \E r \in Req : \E i \in TaskIdx(r) : TileFetchFail(r, i)
  \/ \E r \in Req : \E i \in TaskIdx(r) : AttachedAppend(r, i)
  \/ \E r \in Req : \E i \in TaskIdx(r) : AttachedDraw(r, i)
  \/ \E r \in Req : \E i \in TaskIdx(r) : AttachedDrawThrows(r, i)
  \/ \E r \in Req : \E i \in TaskIdx(r) : AttachedSerialize(r, i)
  \/ \E r \in Req : \E i \in TaskIdx(r) : AttachedRemove(r, i)
  \/ \E r \in Req : \E i \in TaskIdx(r) : DetachedRender(r, i)
  \/ \E r \in Req : \E i \in TaskIdx(r) : DetachedRenderThrows(r, i)
  \/ \E r \in Req : \E i \in TaskIdx(r) : RankingRender(r, i)

Spec == Init /\ [][Next]_vars

\* The server with its health endpoint probed while queries are in flight.
\* The queries are those whose upstream call fails and those with one line tile.
NextHealth ==
  \/ \E r \in Req, in \in HealthQueryInputs : Arrive(r, in)
  \/ \E r \in Req : NlReject(r)
  \/ \E r \in Req : NlResolve(r)
  \/ \E r \in Req : \E i \in TaskIdx(r) : TileFetchFail(r, i)
  \/ \E r \in Req : \E i \in TaskIdx(r) : AttachedAppend(r, i)
  \/ \E r \in Req : \E i \in TaskIdx(r) : AttachedDraw(r, i)
  \/ \E r \in Req : \E i \in TaskIdx(r) : AttachedDrawThrows(r, i)
  \/ \E r \in Req : \E i \in TaskIdx(r) : AttachedSerialize(r, i)
  \/ \E r \in Req : \E i \in TaskIdx(r) : AttachedRemove(r, i)
  \/ \E conditional \in BOOLEAN : Healthz(conditional)

SpecHealth == Init /\ [][NextHealth]_vars

\* The handler of /nodejs/query up to the call of Promise.all: the upstream
\* call and the walk of the config tree, for every shape of the tree.
NextWalk ==
  \/ \E r \in Req, in \in QueryInputs : Arrive(r, in)
  \/ \E r \in Req : NlReject(r)
  \/ \E r \in Req : NlResolve(r)

SpecWalk == Init /\ [][NextWalk]_vars

\* The server answering queries whose config has DISASTER_EVENT blocks.
NextDisaster ==
  \/ \E r \in Req, in \in DisasterQueryInputs : Arrive(r, in)
  \/ \E r \in Req : NlReject(r)
  \/ \E r \in Req : NlResolve(r)
  \/ \E r \in Req : \E b \in blocksPending[r] : DisasterEventDataOk(r, b)
  \/ \E r \in Req : \E b \in blocksPending[r] : DisasterEventDataFail(r, b)
  \/ \E r \in Req : \E i \in TaskIdx(r) : TileFetchFail(r, i)
  \/ \E r \in Req : \E i \in TaskIdx(r) : DetachedRender(r, i)
  \/ \E r \in Req : \E i \in TaskIdx(r) : DetachedRenderThrows(r, i)

SpecDisaster == Init /\ [][NextDisaster]_vars

\* ------------------------------------------------------------------------
\* getTextLength (src/unnamed/part_002 lines 100-124, 173-188)
\* ------------------------------------------------------------------------
\* Widths are in units of 1/1024 px: every entry of the table and the average
\* width are multiples of 1/1024, so the sums the code computes in floating
\* point are exact and equal to these integer sums divided by 1024.
CHAR_WIDTHS ==
  << 0, 2640, 3280, 6312, 5752, 7504, 6368, 1792,
     3504, 3560, 4416, 5808, 2016, 2832, 2696, 4224,
     5752, 5752, 5752, 5752, 5752, 5752, 5752,
     5752, 5752, 5752, 2480, 2168, 5208, 5624,
     5352, 4840, 9200, 6680, 6376, 6672, 6720,
     5824, 5664, 6976, 7304, 2792, 5656, 6424,
     5512, 8944, 7304, 7040, 6464, 7040, 6312, 6080,
     6112, 6640, 6520, 9088, 6424, 6152, 6136, 2720,
     4200, 2720, 4280, 4624, 3168, 5576, 5752,
     5360, 5776, 5432, 3440, 5752, 5640, 2488,
     2448, 5192, 2488, 8976, 5656, 5840, 5752,
     5824, 3472, 5280, 3352, 5648, 4960, 7696, 5080,
     4848, 5080, 3472, 2496, 3472, 6968, 0 >>

\* 5.0341796875 px
CHAR_AVG_WIDTH == 5155

\* Longest string argument, in code points.
MaxTextLen == 3
\* Number of calls of getTextLength in one behaviour.
MaxCalls == 2

\* Code points of the arguments: the last one below the table (US, 31), space
\* (32, table index 0), "!" (33), "W" (87), DEL (127, the last table index),
\* the first one above the table (128), and a non-ASCII letter (233).
TextCodePoints == {31, 32, 33, 87, 127, 128, 233}

NullText == [kind |-> "null", chars |-> <<>>]
UndefinedText == [kind |-> "undefined", chars |-> <<>>]

RECURSIVE SeqsUpTo(_, _)
\* the sequences over S of length at most n
SeqsUpTo(S, n) ==
  IF n = 0 THEN {<<>>}
  ELSE LET shorter == SeqsUpTo(S, n - 1)
       IN shorter \cup {Append(q, x) : q \in shorter, x \in S}

TextInputs ==
  {NullText, UndefinedText} \cup {StringText(q) : q \in SeqsUpTo(TextCodePoints, MaxTextLen)}

\* !text
falsyText(t) == t.kind \in {"null", "undefined"} \/ t.chars = <<>>

\* the if / else in the forEach callback: the width of one code point
charWidth(charCode) ==
  LET arrIdx == charCode - 32
  IN IF arrIdx > 0 /\ arrIdx < Len(CHAR_WIDTHS)
       THEN CHAR_WIDTHS[arrIdx + 1]
       ELSE CHAR_AVG_WIDTH

\* Variant: the callback assigns the width (length = ...) instead of adding it.
addWidthMutant(length, charCode) == charWidth(charCode)
\* length += ...
addWidth(length, charCode) == length + charWidth(charCode)

RECURSIVE forEachChar(_, _)
\* Array.from(text).forEach((c) => {...}) starting from `length`
forEachChar(length, chars) ==
  IF chars = <<>> THEN length
  ELSE forEachChar(addWidth(length, Head(chars)), Tail(chars))

getTextLength(t) == IF falsyText(t) THEN 0 ELSE forEachChar(0, t.chars)

\* A caller calls getTextLength(text).
GetTextLength ==
  /\ Len(calls) < MaxCalls
  /\ calls' = Append(calls, [text |-> text, length |-> getTextLength(text)])
  /\ UNCHANGED <<text, serverVars, feedbackVars, resultVars, highlightVars, insightVars, loadingVars>>

\* A caller goes on with the string one character longer.
AppendChar(c) ==
  /\ text.kind = "string"
  /\ Len(text.chars) < MaxTextLen
  /\ text' = StringText(Append(text.chars, c))
  /\ UNCHANGED <<calls, serverVars, feedbackVars, resultVars, highlightVars, insightVars, loadingVars>>

TextInit == text \in TextInputs /\ calls = <<>>

InitText ==
  ServerInit /\ TextInit /\ FeedbackIdle /\ ResultMounted /\ HighlightIdle /\ InsightIdle
    /\ LoadingIdle

NextText ==
  \/ GetTextLength
  \/ \E c \in TextCodePoints : AppendChar(c)

SpecText == InitText /\ [][NextText]_vars

\* ------------------------------------------------------------------------
\* CallFeedback (src/static/js/apps/eval_rig/call_feedback.tsx)
\* ------------------------------------------------------------------------
\* The values of the radio options of a question.
ResponseOptions == {"opt1"}
ResponseFields == {"dcResponse", "llmStat", "question"}

\* useEffect(..., [sheetId, sessionQueryId, sessionCallId, applyToNext]): the
\* effect calls getCallData and its callback keeps the applyToNext of the
\* render that ran the effect.
startLoad(call, apply) == loads \cup {[call |-> call, applyToNext |-> apply]}

\* Number of user actions (choices, clicks, navigations) in one behaviour.
MaxUserActions == 4

\* The page takes a user action: no checkAndSubmit is waiting for its saves
\* (while it waits, the spinner's screen covers the page).
userAction ==
  /\ submit.pc # "saving"
  /\ userActions < MaxUserActions
  /\ userActions' = userActions + 1

\* The .then callback of getCallData (lines 60-72).
GetCallDataResolve(l) ==
  /\ l \in loads
  /\ loads' = loads \ {l}
  /\ IF store[l.call].saved
       THEN response' = store[l.call].response /\ status' = "Submitted"
       ELSE IF l.applyToNext
              THEN status' = "Completed" /\ UNCHANGED response
              ELSE response' = EMPTY_RESPONSE /\ status' = "NotStarted"
  /\ UNCHANGED <<userActions, applyToNext, session, store, sheet, submit, serverVars, textVars, resultVars, highlightVars, insightVars, loadingVars>>

\* getCallData rejects: the effect has no rejection handler.
GetCallDataReject(l) ==
  /\ l \in loads
  /\ loads' = loads \ {l}
  /\ UNCHANGED <<userActions, status, response, applyToNext, session, store, sheet, submit,
                 serverVars, textVars, resultVars, highlightVars, insightVars, loadingVars>>

\* for (const value of Object.values(newState)) if (value === "") ...
formStatus(newState) ==
  IF \E name \in ResponseFields : newState[name] = "" THEN "InProgress" ELSE "Completed"

\* handleChange: an option of a question is chosen (the inputs are disabled
\* when the status is Submitted).
HandleChange(name, value) ==
  /\ userAction
  /\ status # "Submitted"
  /\ response' = [response EXCEPT ![name] = value]
  /\ status' = formStatus(response')
  /\ UNCHANGED <<applyToNext, session, loads, store, sheet, submit, serverVars, textVars, resultVars, highlightVars, insightVars, loadingVars>>

\* enableReeval: the Re-Eval button
EnableReeval ==
  /\ userAction
  /\ response' = EMPTY_RESPONSE
  /\ status' = "NotStarted"
  /\ UNCHANGED <<applyToNext, session, loads, store, sheet, submit, serverVars, textVars, resultVars, highlightVars, insightVars, loadingVars>>

\* handleApplyToNextChange (the checkbox is disabled when the status is
\* Submitted); the first effect runs again because applyToNext changed.
HandleApplyToNextChange ==
  /\ userAction
  /\ status # "Submitted"
  /\ applyToNext' = ~applyToNext
  /\ loads' = startLoad(session, applyToNext')
  /\ UNCHANGED <<status, response, session, store, sheet, submit, serverVars, textVars, resultVars, highlightVars, insightVars, loadingVars>>

\* The session moves to another call; the first effect runs again.
Navigate(call) ==
  /\ userAction
  /\ call # session
  /\ session' = call
  /\ loads' = startLoad(call, applyToNext)
  /\ UNCHANGED <<status, response, applyToNext, store, sheet, submit, serverVars, textVars, resultVars, highlightVars, insightVars, loadingVars>>

\* Variant: the test for Completed is left out, so every status other than
\* InProgress saves.
savesOnStatusMutant(st) == st # "InProgress"
\* if (status === FormStatus.Completed)
savesOnStatus(st) == st = "Completed"

\* checkAndSubmit is called (lines 95-126): it returns at once, or calls
\* loadSpinner, saveToStore and saveToSheet and waits for both.
CheckAndSubmit ==
  /\ userAction
  /\ submit' =
       IF status = "InProgress"
         THEN [NoSubmit EXCEPT !.pc = "returned", !.status = status, !.call = session,
                               !.response = response, !.returned = "false"]
       ELSE IF savesOnStatus(status)
         THEN [NoSubmit EXCEPT !.pc = "saving", !.status = status, !.call = session,
                               !.response = response, !.toStore = "pending",
                               !.toSheet = "pending", !.spinner = TRUE]
       ELSE [NoSubmit EXCEPT !.pc = "returned", !.status = status, !.call = session,
                             !.response = response, !.returned = "true"]
  /\ UNCHANGED <<status, response, applyToNext, session, loads, store, sheet,
                 serverVars, textVars, resultVars, highlightVars, insightVars, loadingVars>>

\* Promise.all([...]).then(() => true).catch(() => false).finally(removeSpinner)
\* reacting to the state sub of its two promises: it resolves when both have
\* resolved and rejects as soon as one has rejected.
promiseAll(sub) ==
  IF sub.pc # "saving" THEN sub
  ELSE IF sub.toStore = "failed" \/ sub.toSheet = "failed"
    THEN [sub EXCEPT !.pc = "returned", !.returned = "false", !.spinner = FALSE]
  ELSE IF sub.toStore = "saved" /\ sub.toSheet = "saved"
    THEN [sub EXCEPT !.pc = "returned", !.returned = "true", !.spinner = FALSE]
  ELSE sub

\* saveToStore resolves, having written the response for the call.
SaveToStoreOk ==
  /\ submit.toStore = "pending"
  /\ store' = [store EXCEPT ![submit.call] = CallData(submit.response)]
  /\ submit' = promiseAll([submit EXCEPT !.toStore = "saved"])
  /\ UNCHANGED <<userActions, status, response, applyToNext, session, loads, sheet, serverVars, textVars, resultVars, highlightVars, insightVars, loadingVars>>

\* saveToStore rejects.
SaveToStoreFail ==
  /\ submit.toStore = "pending"
  /\ submit' = promiseAll([submit EXCEPT !.toStore = "failed"])
  /\ UNCHANGED <<userActions, status, response, applyToNext, session, loads, store, sheet,
                 serverVars, textVars, resultVars, highlightVars, insightVars, loadingVars>>

\* saveToSheet resolves, having written the response for the call.
SaveToSheetOk ==
  /\ submit.toSheet = "pending"
  /\ sheet' = [sheet EXCEPT ![submit.call] = CallData(submit.response)]
  /\ submit' = promiseAll([submit EXCEPT !.toSheet = "saved"])
  /\ UNCHANGED <<userActions, status, response, applyToNext, session, loads, store, serverVars, textVars, resultVars, highlightVars, insightVars, loadingVars>>

\* saveToSheet rejects.
SaveToSheetFail ==
  /\ submit.toSheet = "pending"
  /\ submit' = promiseAll([submit EXCEPT !.toSheet = "failed"])
  /\ UNCHANGED <<userActions, status, response, applyToNext, session, loads, store, sheet,
                 serverVars, textVars, resultVars, highlightVars, insightVars, loadingVars>>

\* the store and the sheet hold nothing, or feedback saved earlier for call1
FeedbackInit ==
  \E stored \in {[c \in SessionCalls |-> NoCallData],
                 [c \in SessionCalls |->
                    IF c = "call1"
                      THEN CallData([dcResponse |-> "opt1", llmStat |-> "opt1",
                                     question |-> "opt1"])
                      ELSE NoCallData]} :
    FeedbackMounted(stored)

InitFeedback ==
  ServerInit /\ TextIdle /\ FeedbackInit /\ ResultMounted /\ HighlightIdle /\ InsightIdle
    /\ LoadingIdle

NextFeedback ==
  \/ \E l \in loads : GetCallDataResolve(l)
  \/ \E l \in loads : GetCallDataReject(l)
  \/ \E name \in ResponseFields, value \in ResponseOptions : HandleChange(name, value)
  \/ EnableReeval
  \/ HandleApplyToNextChange
  \/ \E call \in SessionCalls : Navigate(call)
  \/ CheckAndSubmit
  \/ SaveToStoreOk
  \/ SaveToStoreFail
  \/ SaveToSheetOk
  \/ SaveToSheetFail

SpecFeedback == InitFeedback /\ [][NextFeedback]_vars

\* ------------------------------------------------------------------------
\* QueryResult (src/static/js/apps/nl_interface/query_result.tsx)
\* ------------------------------------------------------------------------
\* Number of times fetchData runs in one behaviour (the first render and the
\* changes of props.query).
MaxQueries == 2

\* resp.data of POST /api/nl/data.  context, config, hasCategories, place,
\* debug: the property is defined; categories: for each category of
\* config.categories whether it is non-empty (not _.isEmpty); placeFallback:
\* "missing", "empty" ({}) or "fallback" (an object with origStr and newStr).
NlResponse(context, config, hasCategories, categories, place, placeFallback, debug) ==
  [kind |-> "data", context |-> context, config |-> config,
   hasCategories |-> hasCategories, categories |-> categories, place |-> place,
   placeFallback |-> placeFallback, debug |-> debug]

\* the post rejects (network error or error status)
NlPostRejected ==
  [kind |-> "rejected", context |-> FALSE, config |-> FALSE, hasCategories |-> FALSE,
   categories |-> <<>>, place |-> FALSE, placeFallback |-> "missing", debug |-> FALSE]

CategoryLists == {<<>>, <<FALSE>>, <<TRUE>>, <<FALSE, TRUE>>, <<FALSE, FALSE>>}

NlResponses ==
  {NlPostRejected,
   NlResponse(FALSE, TRUE, TRUE, <<TRUE>>, TRUE, "empty", FALSE),
   NlResponse(TRUE, FALSE, FALSE, <<>>, TRUE, "empty", TRUE),
   NlResponse(TRUE, TRUE, FALSE, <<>>, TRUE, "empty", FALSE)}
    \cup {NlResponse(TRUE, TRUE, TRUE, cats, place, fb, debug) :
            cats \in CategoryLists, place \in BOOLEAN,
            fb \in {"missing", "empty", "fallback"}, debug \in BOOLEAN}

\* what a fetch has done so far: calls of addContextCallback, state set, and
\* whether an error was thrown
NoEffects ==
  [callbacks |-> <<>>, charts |-> NoChartsData, hide |-> "unset", error |-> "unset",
   debug |-> FALSE, loaded |-> FALSE, threw |-> FALSE]

\* _.remove(categories, (c) => _.isEmpty(c)): the categories that remain
removeEmpty(categories) == SelectSeq(categories, LAMBDA nonEmpty : nonEmpty)

\* Variant: the test reads categories.length >= 0.
categoriesRemainMutant(categories) == Len(categories) >= 0
\* if (categories.length > 0)
categoriesRemain(categories) == Len(categories) > 0

\* if (categories.length > 0) { ... setChartsData({...}) } (lines 105-133):
\* "origStr" in respFb throws when placeFallback is missing, mainPlace["dcid"]
\* throws when place is missing, after setHideCharts has been called.
setCharts(e, resp, categories) ==
  IF resp.placeFallback = "missing" THEN [e EXCEPT !.threw = TRUE]
  ELSE LET fb == resp.placeFallback = "fallback"
           h == [e EXCEPT !.hide = IF fb THEN "true" ELSE "false"]
       IN IF ~resp.place THEN [h EXCEPT !.threw = TRUE]
          ELSE [h EXCEPT !.charts = [defined |-> TRUE, categories |-> categories,
                                     fallback |-> fb]]

\* The .then callback of the post (lines 90-143).
fetchThen(resp) ==
  IF ~resp.context \/ ~resp.config
    THEN [NoEffects EXCEPT !.loaded = TRUE, !.callbacks = <<"undefined">>]
  ELSE
    LET called == [NoEffects EXCEPT !.callbacks = <<"context">>]
        categories == removeEmpty(IF resp.hasCategories THEN resp.categories ELSE <<>>)
        shown == IF categoriesRemain(categories)
                   THEN setCharts(called, resp, categories)
                   ELSE [called EXCEPT !.error = "Sorry, we couldn't answer your question."]
    IN IF shown.threw THEN shown
       ELSE [shown EXCEPT !.debug = resp.debug, !.loaded = TRUE]

\* The .catch callback (lines 144-149), after what the fetch did before; the
\* message of line 148 is written here with a plain apostrophe.
fetchCatch(e) ==
  [e EXCEPT !.callbacks = Append(@, "undefined"), !.loaded = TRUE,
            !.error = "Sorry, we didn't understand your question."]

\* what one fetch does once the post has settled with resp
fetchEffects(resp) ==
  IF resp.kind = "rejected" THEN fetchCatch(NoEffects)
  ELSE LET e == fetchThen(resp) IN IF e.threw THEN fetchCatch(e) ELSE e

\* A pending post settles with resp and its callbacks run.
FetchSettle(resp) ==
  /\ queryPosts > 0
  /\ queryPosts' = queryPosts - 1
  /\ LET e == fetchEffects(resp) IN
       /\ chartsData' = IF e.charts.defined THEN e.charts ELSE chartsData
       /\ hideCharts' = IF e.hide = "unset" THEN hideCharts ELSE e.hide = "true"
       /\ errorMsg' = IF e.error = "unset" THEN errorMsg ELSE e.error
       /\ debugData' = (debugData \/ e.debug)
       /\ isLoading' = IF e.loaded THEN FALSE ELSE isLoading
       /\ contextCalls' = contextCalls \o e.callbacks
       /\ queryLog' = Append(queryLog, [resp |-> resp, effects |-> e])
  /\ UNCHANGED <<serverVars, textVars, feedbackVars, highlightVars, insightVars, loadingVars>>

\* props.query changes: the effect calls fetchData again.
FetchData ==
  /\ queryPosts + Len(queryLog) < MaxQueries
  /\ isLoading' = TRUE
  /\ queryPosts' = queryPosts + 1
  /\ UNCHANGED <<chartsData, errorMsg, hideCharts, debugData, contextCalls, queryLog,
                 serverVars, textVars, feedbackVars, highlightVars, insightVars, loadingVars>>

InitResult ==
  ServerInit /\ TextIdle /\ FeedbackIdle /\ ResultMounted /\ HighlightIdle /\ InsightIdle
    /\ LoadingIdle

NextResult ==
  \/ \E resp \in NlResponses : FetchSettle(resp)
  \/ FetchData

SpecResult == InitResult /\ [][NextResult]_vars

\* ------------------------------------------------------------------------
\* HighlightTile fetchData (src/static/js/components/tiles/highlight_tile.tsx)
\* ------------------------------------------------------------------------
\* Numbers are decimals m * 10^e kept in normal form (m not divisible by 10,
\* zero as 0 * 10^0) and the arithmetic is exact; the inputs are chosen so
\* that every quotient is a finite decimal.
NUM_FRACTION_DIGITS == 1

\* Largest mantissa of a fetched value.
MaxValue == 3

RECURSIVE norm(_, _)
norm(m, e) ==
  IF m = 0 THEN Dec(0, 0)
  ELSE IF m % 10 = 0 THEN norm(m \div 10, e + 1)
  ELSE Dec(m, e)

abs(n) == IF n < 0 THEN -n ELSE n

RECURSIVE digits(_)
digits(n) == IF n < 10 THEN 1 ELSE 1 + digits(n \div 10)

RECURSIVE pow10(_)
pow10(j) == IF j = 0 THEN 1 ELSE 10 * pow10(j - 1)

\* value * k for a number k
times(value, k) ==
  LET kd == norm(k, 0) IN norm(value.m * kd.m, value.e + kd.e)

\* value / w for a positive w whose mantissa divides a power of ten
over(value, w) ==
  LET j == CHOOSE j \in 0..9 : pow10(j) % w.m = 0 /\ \A i \in 0..(j - 1) : pow10(i) % w.m # 0
  IN norm(value.m * (pow10(j) \div w.m), value.e - w.e - j)

\* Math.floor(Math.log(Math.abs(value)) / Math.log(10)) for a value other
\* than 0
magnitude(value) == digits(abs(value.m)) - 1 + value.e

\* lines 207-210: Math.abs(value) >= 1 ? NUM_FRACTION_DIGITS :
\* 1 - Math.floor(Math.log(Math.abs(value)) / Math.log(10)); for the value 0
\* the logarithm is -Infinity and the result Infinity
fractionDigits(value) ==
  IF value.m = 0 THEN [finite |-> FALSE, n |-> 0]
  ELSE IF magnitude(value) >= 0 THEN [finite |-> TRUE, n |-> NUM_FRACTION_DIGITS]
  ELSE [finite |-> TRUE, n |-> 1 - magnitude(value)]

UnitOverride(unit, multiplier, hasDigits, numFractionDigits, unitDisplayName) ==
  [unit |-> unit, multiplier |-> multiplier, hasDigits |-> hasDigits,
   numFractionDigits |-> numFractionDigits, unitDisplayName |-> unitDisplayName]

UnitOverrideConfig ==
  [key \in {"SDG_CON_USD_M", "SDG_CUR_LCU_M", "SDG_CU_USD_B", "SDG_CU_USD_M", "SDG_HA_TH",
            "SDG_NUM_M", "SDG_NUM_TH", "SDG_TONNES_M", "SDG_NUMBER"} |->
     CASE key = "SDG_CON_USD_M" -> UnitOverride("SDG_CON_USD", 1000000, FALSE, 0, "Constant USD")
       [] key = "SDG_CUR_LCU_M" ->
            UnitOverride("SDG_CUR_LCU", 1000000, FALSE, 0, "Current local currency")
       [] key = "SDG_CU_USD_B" -> UnitOverride("SDG_CU_USD", 1000000000, FALSE, 0, "USD")
       [] key = "SDG_CU_USD_M" -> UnitOverride("SDG_CU_USD", 1000000, FALSE, 0, "USD")
       [] key = "SDG_HA_TH" -> UnitOverride("SDG_HA", 1000, FALSE, 0, "Hectares")
       [] key = "SDG_NUM_M" -> UnitOverride("SDG_NUMBER", 1000000, FALSE, 0, "")
       [] key = "SDG_NUM_TH" -> UnitOverride("SDG_NUMBER", 1000, FALSE, 0, "")
       [] key = "SDG_TONNES_M" -> UnitOverride("SDG_TONNES", 1000000, FALSE, 0, "Tonnes")
       [] key = "SDG_NUMBER" -> UnitOverride("SDG_NUMBER", 1, TRUE, 0, "")]

\* props.statVarSpec: whether denom is given, and scaling (0: not given)
StatVarSpecs == [denom : BOOLEAN, scaling : {0, 100}]

\* mainStatData.value and the value of the denominator
ValueInputs == {norm(m, e) : m \in (-1)..MaxValue, e \in {-3, 0, 2}}
DenomInputs ==
  {[defined |-> FALSE, value |-> Dec(1, 0)]}
    \cup {[defined |-> TRUE, value |-> w] : w \in {Dec(4, 0), Dec(1, 3)}}

\* resp.facets[mainStatData.facet]; the unit "" stands for no unit
FacetUnits == {"", "USDollar", "SDG_CU_USD_B", "SDG_HA_TH", "SDG_NUMBER"}
FacetInputs ==
  {NoPointResp.facet}
    \cup {[defined |-> TRUE, unit |-> unit, unitDisplayName |-> name, provenanceUrl |-> url] :
            unit \in FacetUnits, name \in {"", "US Dollars"}, url \in BOOLEAN}

\* what getPoint settles with: a rejection, or data with or without the
\* observation of the main variable
PointResponses ==
  {[NoPointResp EXCEPT !.kind = "rejected"], [NoPointResp EXCEPT !.kind = "data"]}
    \cup {[kind |-> "data", hasMain |-> TRUE, value |-> value, denom |-> denom, facet |-> facet] :
            value \in ValueInputs, denom \in DenomInputs, facet \in FacetInputs}

\* lines 196-204: the value after the division by the denominator and the
\* scaling
fetchedValue(statVarSpec, resp) ==
  LET divided == IF statVarSpec.denom THEN over(resp.value, resp.denom.value) ELSE resp.value
  IN IF statVarSpec.scaling # 0 THEN times(divided, statVarSpec.scaling) ELSE divided

\* Variant: numFractionDigits is computed from the multiplied value.
applyOverrideMutant(result, override, numFractionDigits) ==
  [result EXCEPT !.unitDisplayName = override.unitDisplayName,
                 !.value = times(@, override.multiplier),
                 !.numFractionDigits =
                   IF ~override.hasDigits THEN fractionDigits(times(result.value, override.multiplier))
                   ELSE [finite |-> TRUE, n |-> override.numFractionDigits]]
\* lines 218-224
applyOverride(result, override, numFractionDigits) ==
  [result EXCEPT !.unitDisplayName = override.unitDisplayName,
                 !.value = times(@, override.multiplier),
                 !.numFractionDigits =
                   IF ~override.hasDigits THEN numFractionDigits
                   ELSE [finite |-> TRUE, n |-> override.numFractionDigits]]

\* lines 216-230: if (facet) { ... }
applyFacet(result, facet, numFractionDigits) ==
  LET named == IF facet.unit \in DOMAIN UnitOverrideConfig
                 THEN applyOverride(result, UnitOverrideConfig[facet.unit], numFractionDigits)
               ELSE IF facet.unitDisplayName # ""
                 THEN [result EXCEPT !.unitDisplayName = facet.unitDisplayName]
               ELSE result
  IN [named EXCEPT !.sources = facet.provenanceUrl]

\* whether the .then callback throws: the observation of the main variable or
\* of the denominator is missing from the response
thenThrows(statVarSpec, resp) ==
  ~resp.hasMain \/ (statVarSpec.denom /\ ~resp.denom.defined)

\* fetchData (lines 184-237): what its promise resolves with
fetchData(statVarSpec, resp) ==
  IF resp.kind = "rejected" \/ thenThrows(statVarSpec, resp) THEN NullHighlight
  ELSE LET value == fetchedValue(statVarSpec, resp)
           numFractionDigits == fractionDigits(value)
           result == [isNull |-> FALSE, value |-> value, numFractionDigits |-> numFractionDigits,
                      unitDisplayName |-> "undefined", sources |-> FALSE]
       IN IF resp.facet.defined THEN applyFacet(result, resp.facet, numFractionDigits)
          ELSE result

\* getPoint settles and setHighlightData is called with what fetchData
\* resolves with (lines 127-131).
GetPointSettle(resp) ==
  /\ getPointPending
  /\ getPointPending' = FALSE
  /\ pointResp' = resp
  /\ highlightData' = fetchData(tileProps, resp)
  /\ UNCHANGED <<tileProps, serverVars, textVars, feedbackVars, resultVars, insightVars, loadingVars>>

InitHighlight ==
  /\ ServerInit /\ TextIdle /\ FeedbackIdle /\ ResultMounted /\ InsightIdle /\ LoadingIdle
  /\ \E statVarSpec \in StatVarSpecs : HighlightMounted(statVarSpec)

NextHighlight == \E resp \in PointResponses : GetPointSettle(resp)

SpecHighlight == InitHighlight /\ [][NextHighlight]_vars

\* ------------------------------------------------------------------------
\* The insights App: toApiList (src/unnamed/part_003)
\* ------------------------------------------------------------------------
\* Strings are sequences of characters.
DELIM == <<"_", "_", "_">>

\* Characters of the identifiers, longest identifier, longest list of
\* identifiers and longest hash parameter typed into the URL.
IdChars == {"a", "_"}
MaxIdLen == 2
MaxIds == 2
MaxHashLen == 4

RECURSIVE StringsUpTo(_)
StringsUpTo(n) ==
  IF n = 0 THEN {<<>>}
  ELSE LET shorter == StringsUpTo(n - 1)
       IN shorter \cup {Append(str, c) : str \in {t \in shorter : Len(t) = n - 1}, c \in IdChars}

RECURSIVE ListsUpTo(_, _)
ListsUpTo(S, n) ==
  IF n = 0 THEN {<<>>}
  ELSE LET shorter == ListsUpTo(S, n - 1)
       IN shorter \cup {Append(l, x) : l \in {t \in shorter : Len(t) = n - 1}, x \in S}

\* detectResp["entities"]: lists of non-empty identifiers
EntityLists == ListsUpTo(StringsUpTo(MaxIdLen) \ {<<>>}, MaxIds)

\* Array.prototype.join(DELIM)
RECURSIVE join(_)
join(list) ==
  IF list = <<>> THEN <<>>
  ELSE IF Len(list) = 1 THEN list[1]
  ELSE list[1] \o DELIM \o join(Tail(list))

\* whether DELIM occurs in str at index i
delimAt(str, i) ==
  i + Len(DELIM) - 1 <= Len(str) /\ SubSeq(str, i, i + Len(DELIM) - 1) = DELIM

\* String.prototype.split(DELIM): the pieces between the occurrences of DELIM
\* found from left to right; a string without DELIM, the empty one included,
\* is one piece
RECURSIVE split(_)
split(str) ==
  IF \E i \in 1..Len(str) : delimAt(str, i)
    THEN LET i == CHOOSE i \in 1..Len(str) :
                    delimAt(str, i) /\ \A k \in 1..(i - 1) : ~delimAt(str, k)
         IN <<SubSeq(str, 1, i - 1)>> \o split(SubSeq(str, i + Len(DELIM), Len(str)))
    ELSE <<str>>

\* input.split(DELIM).filter((i) => i)
toApiList(str) == SelectSeq(split(str), LAMBDA piece : piece # <<>>)

\* place = detectResp["entities"].join(DELIM); updateHash({... p: place ...})
UpdateHash ==
  /\ insightPc = "detected"
  /\ hashPlace' = join(detected.entities)
  /\ insightPc' = "hashed"
  /\ UNCHANGED <<detected, places, serverVars, textVars, feedbackVars, resultVars, highlightVars,
                 loadingVars>>

\* const places = toApiList(place), and the same for cmpPlace, topic, cmpTopic
ToApiList ==
  /\ insightPc = "hashed"
  /\ places' = toApiList(hashPlace)
  /\ insightPc' = "listed"
  /\ UNCHANGED <<detected, hashPlace, serverVars, textVars, feedbackVars, resultVars,
                 highlightVars, loadingVars>>

\* a detect response has arrived with these entities
InsightDetected(entities) ==
  /\ detected = [from |-> TRUE, entities |-> entities]
  /\ hashPlace = <<>>
  /\ places = <<>>
  /\ insightPc = "detected"

InitInsight ==
  /\ ServerInit /\ TextIdle /\ FeedbackIdle /\ ResultMounted /\ HighlightIdle /\ LoadingIdle
  /\ \/ \E hash \in StringsUpTo(MaxHashLen) : InsightOpened(hash)
     \/ \E entities \in EntityLists : InsightDetected(entities)

NextInsight == UpdateHash \/ ToApiList

SpecInsight == InitInsight /\ [][NextInsight]_vars

\* ------------------------------------------------------------------------
\* The insights App: loading status (src/unnamed/part_003)
\* ------------------------------------------------------------------------
\* Number of times the user changes the hash in one behaviour.
MaxHashChanges == 2

\* What fetchDetectData resolves with: null (the post failed), or resp.data
\* with entities ("missing", "empty" for [] or "some"), with or without
\* variables, and with or without the comparison lists.
DetectResponses ==
  {[isNull |-> TRUE, entities |-> "missing", variables |-> FALSE, comparisons |-> FALSE]}
    \cup [isNull : {FALSE}, entities : {"missing", "empty", "some"}, variables : BOOLEAN,
          comparisons : BOOLEAN]

\* What fetchFulfillData resolves with: null (the post failed), or resp.data
\* with place ("missing", "nodcid" or "ok"), with or without relatedThings.
FulfillResponses ==
  {[isNull |-> TRUE, place |-> "missing", relatedThings |-> FALSE]}
    \cup [isNull : {FALSE}, place : {"missing", "nodcid", "ok"}, relatedThings : BOOLEAN]

\* The user changes the hash (a link, the search bar, the address bar): the
\* hashchange handler sets hashParams and the second effect runs.
HashChange(params) ==
  /\ hashChanges < MaxHashChanges
  /\ hashChanges' = hashChanges + 1
  /\ hashParams' = params
  /\ loadingStatus' = runEffect(params, posts).loadingStatus
  /\ posts' = runEffect(params, posts).posts
  /\ UNCHANGED <<pageChartData, serverVars, textVars, feedbackVars, resultVars, highlightVars,
                 insightVars>>

\* whether the continuation after fetchDetectData throws: detectResp is null
\* (detectResp["context"], line 200), or a comparison list is missing
\* (.join of undefined, lines 207-209)
detectThrows(resp) ==
  resp.isNull \/ (resp.entities # "missing" /\ resp.variables /\ ~resp.comparisons)

\* if (!detectResp["entities"] || !detectResp["variables"]): an empty array
\* is not falsy
detectIsEmpty(resp) == resp.entities = "missing" \/ ~resp.variables

\* A post to detect settles and the effect continues (lines 199-219): it
\* throws, or sets "fail", or writes the detected lists into the hash with q
\* empty; the hashchange handler then sets hashParams and the second effect
\* runs for them.
DetectSettle(resp) ==
  /\ posts.detect > 0
  /\ LET pending == [posts EXCEPT !.detect = @ - 1]
         params == HashParams(FALSE, resp.entities = "some")
     IN IF detectThrows(resp)
          THEN posts' = pending /\ UNCHANGED <<loadingStatus, hashParams>>
        ELSE IF detectIsEmpty(resp)
          THEN posts' = pending /\ loadingStatus' = "fail" /\ UNCHANGED hashParams
        ELSE /\ hashParams' = params
             /\ loadingStatus' = runEffect(params, pending).loadingStatus
             /\ posts' = runEffect(params, pending).posts
  /\ UNCHANGED <<pageChartData, hashChanges, serverVars, textVars, feedbackVars, resultVars,
                 highlightVars, insightVars>>

\* if (!resp || !resp["place"] || !resp["place"]["dcid"])
fulfillFailed(resp) == resp.isNull \/ resp.place # "ok"

\* A post to fulfill settles and the effect continues (lines 228-266): it
\* sets "fail", or throws reading resp["relatedThings"]["childPlaces"], or
\* sets "loaded" and the chart data.
FulfillSettle(resp) ==
  /\ posts.fulfill > 0
  /\ posts' = [posts EXCEPT !.fulfill = @ - 1]
  /\ IF fulfillFailed(resp)
       THEN loadingStatus' = "fail" /\ UNCHANGED pageChartData
     ELSE IF ~resp.relatedThings
       THEN UNCHANGED <<loadingStatus, pageChartData>>
     ELSE loadingStatus' = "loaded" /\ pageChartData' = TRUE
  /\ UNCHANGED <<hashParams, hashChanges, serverVars, textVars, feedbackVars, resultVars,
                 highlightVars, insightVars>>

InitLoading ==
  /\ ServerInit /\ TextIdle /\ FeedbackIdle /\ ResultMounted /\ HighlightIdle /\ InsightIdle
  /\ \E q \in BOOLEAN, p \in BOOLEAN : AppMounted(HashParams(q, p))

NextLoading ==
  \/ \E q \in BOOLEAN, p \in BOOLEAN : HashChange(HashParams(q, p))
  \/ \E resp \in DetectResponses : DetectSettle(resp)
  \/ \E resp \in FulfillResponses : FulfillSettle(resp)

\* Every pending post settles.
SpecLoading ==
  /\ InitLoading /\ [][NextLoading]_vars
  /\ WF_vars(\E resp \in DetectResponses : DetectSettle(resp))
  /\ WF_vars(\E resp \in FulfillResponses : FulfillSettle(resp))

\* ------------------------------------------------------------------------
\* Properties
\* ------------------------------------------------------------------------
\* the synchronous walk of request r's config tree threw
walkThrew(r) ==
  input[r].kind = "data" /\ input[r].dcid /\ walkConfig(input[r].config).threw

\* the walk of request r's config tree ran to its end
walkCompleted(r) ==
  input[r].kind = "data" /\ input[r].dcid /\ ~walkConfig(input[r].config).threw

\* the results of task i of request r, as they must appear in charts
succeeded(r, i) == tasks[r][i].pc = "done" /\ tasks[r][i].ret = "results"
failed(r, i) == tasks[r][i].pc = "done" /\ tasks[r][i].ret # "results"

RECURSIVE sumLen(_, _)
sumLen(ts, i) ==
  IF i > Len(ts) THEN 0
  ELSE (IF ts[i].ret = "results" THEN Len(ts[i].out) ELSE 0) + sumLen(ts, i + 1)

\* C1: a failure in one tile's fetch or draw never keeps the other tiles'
\* results out of the response.  A failed tile task yields null (its promise
\* never rejects); once every tile task of a request whose tree was walked to
\* the end has settled, the one response is a 200 whose charts hold every
\* result of every tile that succeeded and nothing else; and a 500 is only
\* ever sent because the upstream call failed or the walk of the tree threw,
\* never because a tile failed.
C1_TileFailureIsolated ==
  \A r \in Req :
    /\ \A i \in TaskIdx(r) : failed(r, i) => tasks[r][i].ret = "null"
    /\ (walkCompleted(r) /\ pcR[r] \notin {"idle", "nl"} /\ allSettled(tasks[r])) =>
         /\ Len(responses[r]) = 1
         /\ responses[r][1].status = 200
         /\ LET charts == responses[r][1].body.charts IN
              /\ \A i \in TaskIdx(r) : succeeded(r, i) =>
                   \A k \in DOMAIN tasks[r][i].out :
                     \E c \in DOMAIN charts : charts[c] = tasks[r][i].out[k]
              /\ Len(charts) = sumLen(tasks[r], 1)
    /\ \A k \in DOMAIN responses[r] :
         responses[r][k].status = 500 => (input[r].kind = "rejected" \/ walkThrew(r))

\* a 200 response that carries the charts of a succeeded tile although another
\* tile of the same request failed
C1_Witness ==
  \E r \in Req :
    /\ \E i \in TaskIdx(r) : failed(r, i)
    /\ \E i \in TaskIdx(r) : succeeded(r, i)
    /\ Len(responses[r]) = 1
    /\ responses[r][1].status = 200
    /\ Len(responses[r][1].body.charts) > 0

\* C2: the endpoint answers 500 only when the upstream call fails; for every
\* upstream response received and decoded, whatever the shape of its config
\* tree, the status is 200.
C2_Only500OnUpstreamFailure ==
  \A r \in Req : \A k \in DOMAIN responses[r] :
    /\ responses[r][k].status = 500 => input[r].kind = "rejected"
    /\ input[r].kind = "data" => responses[r][k].status = 200

\* C3: when the upstream response has no place dcid the response is 200 with
\* { charts: [] }, and no tile task and no block fetch is started.
C3_NoPlaceEmptyCharts ==
  \A r \in Req :
    (input[r].kind = "data" /\ ~input[r].dcid /\ pcR[r] \notin {"idle", "nl"}) =>
      /\ responses[r] = <<OkResponse(<<>>)>>
      /\ tasks[r] = <<>>
      /\ blocksPending[r] = {}

\* a request answered for a response without a place whose config has tiles
C3_Witness ==
  \E r \in Req :
    /\ input[r] = NlData(FALSE, CfgLineBar)
    /\ pcR[r] = "done"
    /\ responses[r] # <<>>

\* C4: when the upstream response has a place but the config tree dispatches
\* no tile task, the response is 200 with { charts: [] }.
C4_NoTilesEmptyCharts ==
  \A r \in Req :
    (input[r].kind = "data" /\ input[r].dcid /\ pcR[r] = "done" /\ tasks[r] = <<>>) =>
      responses[r] = <<OkResponse(<<>>)>>

isQueryResponse(resp) ==
  \/ resp.status = 200 /\ DOMAIN resp.body = {"charts"}
  \/ resp.status = 500 /\ DOMAIN resp.body = {"err"} /\ resp.body.err = "Error fetching data."

\* C5: every request receives at most one response, and a response is either
\* 200 with a body { charts: [...] } or 500 with a body { err: <string> }.
C5_AtMostOneResponse ==
  \A r \in Req :
    /\ Len(responses[r]) <= 1
    /\ \A k \in DOMAIN responses[r] : isQueryResponse(responses[r][k])

\* all finished, one request answered 200 by the "no tiles" branch, another 500
C5_Witness ==
  /\ \A r \in Req : pcR[r] = "done"
  /\ \E r \in Req :
       /\ input[r].kind = "data" /\ input[r].dcid /\ tasks[r] = <<>>
       /\ Len(responses[r]) = 1 /\ responses[r][1].status = 200
  /\ \E r \in Req : Len(responses[r]) = 1 /\ responses[r][1].status = 500

\* lexicographic order on tile ids <<category, block, column, tile>>
RECURSIVE lexLeq(_, _)
lexLeq(a, b) ==
  IF a = <<>> THEN TRUE
  ELSE IF Head(a) # Head(b) THEN Head(a) < Head(b)
  ELSE lexLeq(Tail(a), Tail(b))

\* C6: the charts of a response are in submission order (category, block,
\* column, tile index; the results of one tile contiguous), whatever the order
\* in which the tile tasks completed.
C6_ChartsInSubmissionOrder ==
  \A r \in Req : \A k \in DOMAIN responses[r] :
    responses[r][k].status = 200 =>
      LET charts == responses[r][k].body.charts IN
        \A a, b \in DOMAIN charts :
          /\ charts[a].req = r
          /\ a < b => lexLeq(charts[a].id, charts[b].id)

\* a response with the charts of two tiles whose tasks completed in the
\* reverse of their submission order, one of them with two results
C6_Witness ==
  \E r \in Req :
    /\ Len(responses[r]) = 1
    /\ responses[r][1].status = 200
    /\ Len(settleOrder[r]) = 2
    /\ settleOrder[r][1] > settleOrder[r][2]
    /\ Len(responses[r][1].body.charts) = 3

\* C7: the response to a query that dispatched at least one tile task is sent
\* only after every tile task of the request has settled; while a tile's
\* fetch has not settled no response is sent.
C7_ResponseAfterAllSettled ==
  \A r \in Req :
    (responses[r] # <<>> /\ tasks[r] # <<>>) => allSettled(tasks[r])

\* C8: GET /nodejs/healthz always responds with status 200, in every state of
\* the server and when the probe is repeated.
C8_HealthzAlways200 ==
  \A k \in DOMAIN health : health[k].status = 200

\* a repeated, conditional probe answered while one query's upstream call has
\* failed and another query waits for a tile fetch
C8_Witness ==
  /\ Len(health) = MaxHealth
  /\ health[Len(health)].conditional
  /\ \E r \in Req : responses[r] = <<ErrResponse>>
  /\ \E r \in Req : \E i \in TaskIdx(r) : tasks[r][i].pc = "fetching"

midRender(r, i) == tasks[r][i].pc \in {"appended", "drawn", "serialized"}

\* C9: while a line or bar tile is between the append of its container and
\* its removal, every step that changes the shared document is a step of that
\* tile task: no other tile task, of the same or of another request, takes a
\* step in between.
C9_RenderNotInterleaved ==
  [][\A r \in Req : \A i \in TaskIdx(r) :
       (midRender(r, i) /\ dom' # dom) =>
         /\ tasks'[r][i].pc # tasks[r][i].pc
         /\ \A r2 \in Req : \A i2 \in TaskIdx(r2) :
              <<r2, i2>> # <<r, i>> => tasks'[r2][i2] = tasks[r2][i2]]_vars

\* a tile is about to remove its container while a line or bar tile of the
\* same request and one of another request are awaited concurrently
C9_Witness ==
  \E r \in Req : \E i \in TaskIdx(r) :
    /\ tasks[r][i].pc = "serialized"
    /\ \E i2 \in TaskIdx(r) :
         tasks[r][i2].pc = "fetching" /\ tasks[r][i2].type \in AttachedTileTypes
    /\ \E r2 \in Req \ {r} : \E i2 \in TaskIdx(r2) :
         tasks[r2][i2].pc = "fetching" /\ tasks[r2][i2].type \in AttachedTileTypes

\* C10: after a request has completed, also one in which a tile's draw threw,
\* #dom-id contains no tile container created by that request.
C10_NoContainerLeft ==
  \A r \in Req :
    (pcR[r] = "done" /\ running = Idle) =>
      \A c \in DOMAIN dom : dom[c].owner[1] # r

\* ids <<category, block, column, tile>> of all tiles of a config tree
allTiles(config) ==
  UNION {UNION {UNION {{<<c - 1, b - 1, k - 1, t - 1>> :
                          t \in DOMAIN config.categories[c].blocks[b].columns[k].tiles} :
                       k \in DOMAIN config.categories[c].blocks[b].columns} :
                b \in DOMAIN config.categories[c].blocks} :
         c \in DOMAIN config.categories}

blockAt(config, id) == config.categories[id[1] + 1].blocks[id[2] + 1]
tileAt(config, id) == blockAt(config, id).columns[id[3] + 1].tiles[id[4] + 1]

\* tiles of a type the server has a fetch+render function for in their block
renderedTiles(config) ==
  {id \in allTiles(config) :
     IF blockAt(config, id).type = "DISASTER_EVENT"
       THEN tileAt(config, id).type = "DISASTER_EVENT_MAP"
       ELSE tileAt(config, id).type \in SupportedTileTypes}

\* Promise.all(tilePromises) has been called for request r
awaited(r) ==
  \/ pcR[r] = "gathering"
  \/ pcR[r] = "done" /\ tasks[r] # <<>> /\ responses[r] # <<>>
       /\ responses[r][1].status = 200

\* C11 as stated: the number of tile tasks awaited equals the number of tiles
\* in the config tree (one fetch+render task per tile).
C11_OneTaskPerTile ==
  \A r \in Req :
    awaited(r) => Len(tasks[r]) = Cardinality(allTiles(input[r].config))

\* C11 (amended): a tile gets at most one task, in tree order, and only if its
\* type is one the server renders (line, scatter, bar, map, ranking; disaster
\* event map in a DISASTER_EVENT block); the tile tasks awaited are exactly one
\* per such tile of the config tree.  Tiles of any other type get no task.
C11_OneTaskPerRenderedTile ==
  \A r \in Req :
    (input[r].kind = "data" /\ input[r].dcid /\ pcR[r] \notin {"idle", "nl"}) =>
      LET config == input[r].config
          ids == {tasks[r][i].id : i \in TaskIdx(r)}
          rendered == renderedTiles(config)
      IN /\ Cardinality(ids) = Len(tasks[r])
         /\ ids \subseteq rendered
         /\ \A i \in TaskIdx(r) : tasks[r][i].type = tileAt(config, tasks[r][i].id).type
         /\ \A i, j \in TaskIdx(r) : i < j => lexLeq(tasks[r][i].id, tasks[r][j].id)
         /\ awaited(r) => ids = rendered

\* tile tasks are awaited for a tree of three tiles of which two are rendered
C11_Witness ==
  \E r \in Req :
    /\ input[r] = NlData(TRUE, CfgDisasterScatter)
    /\ pcR[r] = "gathering"
    /\ Cardinality(allTiles(input[r].config)) = 3
    /\ Len(tasks[r]) = 2

\* the number of entries of the sequence q that equal x
RECURSIVE count(_, _)
count(q, x) ==
  IF q = <<>> THEN 0 ELSE (IF Head(q) = x THEN 1 ELSE 0) + count(Tail(q), x)

\* C14: no operation is retried.  For one request the upstream POST
\* /api/nl/data is issued exactly once, also after it failed; the data fetch
\* of a dispatched tile is started at most once, also after it failed; and
\* every fetch started is that of a dispatched tile.
C14_NoRetries ==
  \A r \in Req :
    /\ count(fetches[r], NlFetch) = IF pcR[r] = "idle" THEN 0 ELSE 1
    /\ \A i \in TaskIdx(r) : count(fetches[r], TileFetch(tasks[r][i].id)) <= 1
    /\ \A i \in TaskIdx(r) :
         (tasks[r][i].pc = "done" /\ tasks[r][i].type # "DISASTER_EVENT_MAP")
           => count(fetches[r], TileFetch(tasks[r][i].id)) = 1
    /\ \A k \in DOMAIN fetches[r] :
         fetches[r][k].kind = "tile"
           => \E i \in TaskIdx(r) : tasks[r][i].id = fetches[r][k].id

\* one request was answered 500 after its post failed, another was answered
\* after the fetch of one of its tiles failed
C14_Witness ==
  /\ \E r \in Req :
       input[r].kind = "rejected" /\ pcR[r] = "done" /\ responses[r] = <<ErrResponse>>
  /\ \E r \in Req :
       /\ pcR[r] = "done"
       /\ \E i \in TaskIdx(r) :
            failed(r, i) /\ count(fetches[r], TileFetch(tasks[r][i].id)) = 1

\* the position of a tile task in the sequence fetch, draw, serialize
stepRank(task) ==
  CASE task.pc \in {"awaitBlock", "fetching"} -> 1
    [] task.pc = "appended" -> 2
    [] task.pc = "drawn" -> 3
    [] task.pc = "serialized" -> 4
    [] OTHER -> 5

\* C15: for every tile the steps occur in the order fetch, draw, serialize: a
\* draw only starts after the tile's fetch has completed successfully, the
\* serialization after the draw, a tile whose fetch failed is never drawn or
\* serialized; and a response is only sent once all tiles of the request have
\* been aggregated (every tile task has settled).
C15_FetchDrawSerializeRespond ==
  [][\A r \in Req :
       /\ \A i \in TaskIdx(r) :
            /\ stepRank(tasks'[r][i]) >= stepRank(tasks[r][i])
            /\ (tasks'[r][i].pc = "drawn" /\ tasks[r][i].pc # "drawn")
                 => tasks[r][i].pc = "appended"
            /\ (tasks'[r][i].pc = "serialized" /\ tasks[r][i].pc # "serialized")
                 => tasks[r][i].pc = "drawn"
            /\ failed(r, i) => tasks'[r][i] = tasks[r][i]
       /\ responses'[r] # responses[r] => allSettled(tasks'[r])]_vars

\* the disaster map tile tasks of block b of request r
blockTasks(r, b) ==
  {i \in TaskIdx(r) : tasks[r][i].type = "DISASTER_EVENT_MAP" /\ blockOf(tasks[r][i]) = b}

\* the DISASTER_EVENT blocks of a config tree
disasterBlocks(config) ==
  {SubSeq(id, 1, 2) : id \in {t \in allTiles(config) : blockAt(config, t).type = "DISASTER_EVENT"}}

\* the shared event data fetch of block b of request r has failed: it is no
\* longer pending and no disaster map tile of the block went on to its own fetch
eventFetchFailed(r, b) ==
  /\ pcR[r] \notin {"idle", "nl"}
  /\ b \notin blocksPending[r]
  /\ \A i \in blockTasks(r, b) : count(fetches[r], TileFetch(tasks[r][i].id)) = 0

\* C16: the event data of a DISASTER_EVENT block is fetched once per block and
\* the one pending result is shared by all disaster map tile tasks of the
\* block (they wait for it together and go on together); when that fetch
\* fails every disaster map tile of the block yields null, and once all tasks
\* have settled the response is a 200 with the results of the tiles of the
\* other blocks.
C16_SharedEventFetch ==
  \A r \in Req :
    pcR[r] \notin {"idle", "nl"} =>
      \A b \in disasterBlocks(input[r].config) :
        /\ count(fetches[r], EventFetch(b)) = 1
        /\ b \in blocksPending[r] =>
             \A i \in blockTasks(r, b) : tasks[r][i].pc = "awaitBlock"
        /\ b \notin blocksPending[r] =>
             \A i \in blockTasks(r, b) : tasks[r][i].pc # "awaitBlock"
        /\ eventFetchFailed(r, b) =>
             /\ \A i \in blockTasks(r, b) : tasks[r][i].pc = "done" /\ tasks[r][i].ret = "null"
             /\ allSettled(tasks[r]) =>
                  /\ Len(responses[r]) = 1
                  /\ responses[r][1].status = 200
                  /\ \A i \in TaskIdx(r) : succeeded(r, i) =>
                       \E c \in DOMAIN responses[r][1].body.charts :
                         responses[r][1].body.charts[c] = tasks[r][i].out[1]

\* the event data fetch of a block with two disaster map tiles failed and the
\* response carries the chart of the scatter tile of the other block
C16_Witness ==
  \E r \in Req : \E b \in disasterBlocks(input[r].config) :
    /\ eventFetchFailed(r, b)
    /\ Cardinality(blockTasks(r, b)) = 2
    /\ Len(responses[r]) = 1
    /\ responses[r][1].status = 200
    /\ Len(responses[r][1].body.charts) = 1
    /\ responses[r][1].body.charts[1].type = "SCATTER"

isAscii(chars) == \A k \in DOMAIN chars : chars[k] <= 127

\* C12: getTextLength is deterministic (calls with equal strings give equal
\* lengths, whatever was called before) and monotonic in string length for
\* ASCII input (the length of s + c is at least the length of s), and the
\* length of the empty, null or undefined string is 0.
C12_DeterministicMonotonic ==
  /\ \A i, j \in DOMAIN calls :
       calls[i].text = calls[j].text => calls[i].length = calls[j].length
  /\ \A i, j \in DOMAIN calls :
       (/\ calls[i].text.kind = "string" /\ calls[j].text.kind = "string"
        /\ isAscii(calls[j].text.chars)
        /\ \E c \in TextCodePoints : calls[j].text.chars = Append(calls[i].text.chars, c))
         => calls[j].length >= calls[i].length
  /\ \A i \in DOMAIN calls :
       (calls[i].text.kind \in {"null", "undefined"} \/ calls[i].text.chars = <<>>)
         => calls[i].length = 0

\* the length of an ASCII string of two characters was taken, then that of the
\* string with a narrower character appended
C12_Witness ==
  /\ Len(calls) = 2
  /\ calls[1].text = StringText(<<87, 33>>)
  /\ calls[2].text = StringText(<<87, 33, 33>>)
  /\ calls[2].length > calls[1].length

RECURSIVE tableSum(_)
\* the sum of the widths, each code point from 32 to 127 contributing the
\* entry of the table at index code - 32 and every other one the average
tableSum(chars) ==
  IF chars = <<>> THEN 0
  ELSE (IF Head(chars) >= 32 /\ Head(chars) <= 127
          THEN CHAR_WIDTHS[Head(chars) - 32 + 1]
          ELSE CHAR_AVG_WIDTH)
       + tableSum(Tail(chars))

\* C13: getTextLength(text) is the sum over the code points of text of the
\* per-character width: the table entry for every code point the table covers
\* (32 to 127, index code - 32), the average width only for the others.
C13_TableWidthSum ==
  \A i \in DOMAIN calls :
    calls[i].text.kind = "string" => calls[i].length = tableSum(calls[i].text.chars)

\* checkAndSubmit has called saveToStore or saveToSheet
savesStarted == submit.toStore # "none" \/ submit.toSheet # "none"

\* C17: checkAndSubmit saves the response (to the store and to the sheet) only
\* when the form status is Completed; when the status is InProgress it saves
\* nothing and returns false; when the status is NotStarted or Submitted it
\* saves nothing and returns true.
C17_SubmitByStatus ==
  submit.pc # "none" =>
    /\ savesStarted => submit.status = "Completed"
    /\ submit.status = "Completed" => submit.toStore # "none" /\ submit.toSheet # "none"
    /\ submit.status = "InProgress" => ~savesStarted /\ submit.returned = "false"
    /\ submit.status \in {"NotStarted", "Submitted"} => ~savesStarted /\ submit.returned = "true"

\* a completed form was submitted and saved to the store and to the sheet
C17_Witness ==
  /\ submit.pc = "returned"
  /\ submit.status = "Completed"
  /\ submit.returned = "true"
  /\ \A name \in ResponseFields : submit.response[name] # ""
  /\ store[submit.call] = CallData(submit.response)
  /\ sheet[submit.call] = CallData(submit.response)

\* C18: after an NL response that has both context and config, the empty
\* categories are filtered out and charts data is set if and only if at least
\* one non-empty category remains; when none remains the error message "Sorry,
\* we couldn't answer your question." is set and the fetch sets no charts data.
C18_ChartsIffCategoryRemains ==
  \A k \in DOMAIN queryLog :
    LET resp == queryLog[k].resp
        e == queryLog[k].effects
        remains == resp.hasCategories /\ \E c \in DOMAIN resp.categories : resp.categories[c]
    IN (resp.kind = "data" /\ resp.context /\ resp.config) =>
         /\ e.charts.defined <=> remains
         /\ e.charts.defined =>
              \A c \in DOMAIN e.charts.categories : e.charts.categories[c]
         /\ ~remains =>
              /\ e.error = "Sorry, we couldn't answer your question."
              /\ ~e.charts.defined

containsDelim(str) == \E i \in 1..Len(str) : delimAt(str, i)

\* C20: toApiList splits its input on the delimiter "___" and trims empties:
\* the result never contains an empty string, toApiList("") is the empty list,
\* and for every list of non-empty strings that do not contain the delimiter,
\* toApiList(list joined with the delimiter) equals the list.
C20_ToApiListRoundTrip ==
  insightPc = "listed" =>
    /\ \A i \in DOMAIN places : places[i] # <<>>
    /\ hashPlace = <<>> => places = <<>>
    /\ (/\ detected.from
        /\ \A i \in DOMAIN detected.entities :
             detected.entities[i] # <<>> /\ ~containsDelim(detected.entities[i]))
         => places = detected.entities

\* whether every field of a response is filled in
filled(resp) == \A name \in ResponseFields : resp[name] # ""

\* C21: in every reachable state in which the form status is Completed, all
\* three response fields (question, llmStat, dcResponse) are non-empty, after
\* any sequence of field changes, Re-Eval clicks, apply-to-next toggles and
\* navigations between calls; so checkAndSubmit never saves a response with an
\* empty field.
C21_CompletedIsFilled ==
  /\ status = "Completed" => filled(response)
  /\ submit.toStore # "none" => filled(submit.response)
  /\ \A call \in SessionCalls :
       /\ store[call].saved => filled(store[call].response)
       /\ sheet[call].saved => filled(sheet[call].response)

\* C22: whenever checkAndSubmit returns false the response has been saved to
\* neither destination: a submit attempt either saves to both the store and the
\* sheet and returns true, or saves to none and returns false; and the loading
\* spinner is removed after every submit attempt, successful or not.
C22_SubmitAllOrNothing ==
  submit.pc = "returned" =>
    /\ submit.returned = "false" => (submit.toStore # "saved" /\ submit.toSheet # "saved")
    /\ submit.returned = "true" =>
         \/ submit.toStore = "saved" /\ submit.toSheet = "saved"
         \/ submit.toStore = "none" /\ submit.toSheet = "none"
    /\ ~submit.spinner

\* C23: once all pending getCallData loads have settled, the displayed
\* response and status are those of the currently selected call: a load
\* started for an earlier selection that settles after the load for the
\* current selection never overwrites the current call's response or status.
C23_StaleLoadNeverOverwrites ==
  [][\A l \in loads :
       (/\ loads' = loads \ {l}
        /\ l.call # session
        /\ ~\E m \in loads : m.call = session)
         => (response' = response /\ status' = status)]_vars

\* C24: each fetch of a query calls addContextCallback exactly once for its
\* queryIdx, in every outcome: with the response's context when the response
\* has context and config, and with undefined when the response lacks context
\* or config or when the request or its processing fails.
C24_ContextCallbackOnce ==
  /\ Len(contextCalls) = Len(queryLog)
  /\ \A k \in DOMAIN queryLog :
       LET resp == queryLog[k].resp
           e == queryLog[k].effects
       IN /\ Len(e.callbacks) = 1
          /\ e.callbacks[1] =
               IF resp.kind = "data" /\ resp.context /\ resp.config /\ ~e.threw
                 THEN "context" ELSE "undefined"

\* C25: after every change of the hash parameters the loading status
\* eventually leaves "loading" and becomes "loaded" or "fail" once the requests
\* it started have settled; the page is never left showing the spinner for
\* ever (including for a hash with neither a query nor a place, and for a
\* detection that returns no entities).
C25_LoadingEnds ==
  (loadingStatus = "loading") ~> (loadingStatus \in {"loaded", "fail"})

====
